---- MODULE Spec2Model ----
(***************************************************************************)
(* Model of fs/encodings/encodings.go of rclone: the per-backend encoding  *)
(* policies (bitmasks of encoder flags), the registry ByName/Names/Local   *)
(* and the MultiEncoder Encode/Decode pair the policies are handed to.     *)
(*                                                                         *)
(* A policy is a MultiEncoder bitmask; it is modelled as the set of its    *)
(* flags, so that the bitwise OR of the source is set union.               *)
(* A registry name is a sequence of one-character strings, so that         *)
(* strings.ToLower is computed character by character.                     *)
(* A file name is a sequence of integers: a value below InvalidBase is a   *)
(* Unicode codepoint, InvalidBase + b is the byte b where it is not part   *)
(* of a valid UTF-8 sequence.                                              *)
(***************************************************************************)
EXTENDS Integers, Sequences, FiniteSets, TLC

VARIABLES
    goos,      \* runtime.GOOS of the process
    arg,       \* registry: the name handed to ByName
    ret,       \* registry: what ByName(arg) returned
    alt,       \* registry: another spelling of arg handed to ByName
    retAlt,    \* registry: what ByName(alt) returned
    listed,    \* registry: what Names() returned
    loc,       \* registry: what Local() returned
    policy,    \* codec: the MultiEncoder in use
    name,      \* codec: the name handed to Encode
    encoded,   \* codec: Encode(policy, name)
    decoded,   \* codec: Decode(policy, encoded)
    other,     \* codec: a second name with the same encoded form
    alphabet,  \* codec: the characters the names are made of
    heap,      \* callers: the slices allocated by Names(), by address
    cpc,       \* callers: where each caller is
    carg,      \* callers: the name each caller handed to ByName
    clow,      \* callers: ByName's lowercased copy of the name
    cres,      \* callers: the policy ByName returned to each caller
    caddr,     \* callers: the address of the slice Names() returned to each caller
    ncalls     \* callers: the number of calls begun so far

regVars   == <<arg, ret, alt, retAlt, listed, loc>>
codecVars == <<policy, alphabet, name, encoded, decoded, other>>
concVars  == <<heap, cpc, carg, clow, cres, caddr, ncalls>>
vars      == <<goos, regVars, codecVars, concVars>>

-----------------------------------------------------------------------------
(* Bounds of the model.                                                    *)

MaxCase    == 3   \* letters of a registry name whose case is varied freely
MaxLen     == 3   \* length of the names handed to Encode
NumCallers == 2   \* concurrent callers of the registry
MaxCalls   == 3   \* calls made in one run

-----------------------------------------------------------------------------
(* The flags of lib/encoder and the policies of encodings.go.              *)

EncodeZero          == "EncodeZero"
EncodeSlash         == "EncodeSlash"
EncodeWin           == "EncodeWin"
EncodeBackSlash     == "EncodeBackSlash"
EncodeHashPercent   == "EncodeHashPercent"
EncodeDel           == "EncodeDel"
EncodeCtl           == "EncodeCtl"
EncodeLeftSpace     == "EncodeLeftSpace"
EncodeLeftPeriod    == "EncodeLeftPeriod"
EncodeLeftTilde     == "EncodeLeftTilde"
EncodeLeftCrLfHtVt  == "EncodeLeftCrLfHtVt"
EncodeRightSpace    == "EncodeRightSpace"
EncodeRightPeriod   == "EncodeRightPeriod"
EncodeRightCrLfHtVt == "EncodeRightCrLfHtVt"
EncodeInvalidUtf8   == "EncodeInvalidUtf8"

\* encoder.Standard: the flags of rclone's own paths. encodings.go only names
\* it; Box's comment (non-printable ascii and "/" are covered by Display)
\* fixes the flags it must hold.
Standard == { EncodeZero, EncodeSlash, EncodeCtl, EncodeDel }

Base == { EncodeZero, EncodeSlash }

Display == Standard

LocalUnix == Base

LocalWindowsNoRightPeriod ==
    Base \cup { EncodeWin, EncodeBackSlash, EncodeCtl, EncodeRightSpace,
                EncodeInvalidUtf8 }

LocalWindowsNoBackSlash ==
    Base \cup { EncodeWin, EncodeCtl, EncodeRightSpace, EncodeRightPeriod,
                EncodeInvalidUtf8 }

LocalWindows ==
    Base \cup { EncodeWin, EncodeBackSlash, EncodeCtl, EncodeRightSpace,
                EncodeRightPeriod, EncodeInvalidUtf8 }

AmazonCloudDrive == Base \cup { EncodeInvalidUtf8 }

B2 == Display \cup { EncodeBackSlash, EncodeInvalidUtf8 }

Box == Display \cup { EncodeBackSlash, EncodeRightSpace, EncodeInvalidUtf8 }

Drive == { EncodeInvalidUtf8 }

Dropbox ==
    Base \cup { EncodeBackSlash, EncodeDel, EncodeRightSpace, EncodeInvalidUtf8 }

GoogleCloudStorage == Base \cup { EncodeInvalidUtf8 }

JottaCloud == Display \cup { EncodeInvalidUtf8 }

Koofr == Display \cup { EncodeBackSlash, EncodeInvalidUtf8 }

Mega == Base \cup { EncodeInvalidUtf8 }

OneDrive ==
    Display \cup { EncodeBackSlash, EncodeHashPercent, EncodeLeftSpace,
                   EncodeLeftTilde, EncodeRightPeriod, EncodeRightSpace,
                   EncodeWin, EncodeInvalidUtf8 }

OpenDrive ==
    Base \cup { EncodeWin, EncodeLeftCrLfHtVt, EncodeRightCrLfHtVt,
                EncodeBackSlash, EncodeLeftSpace, EncodeRightSpace,
                EncodeInvalidUtf8 }

Pcloud == Base \cup { EncodeInvalidUtf8 }

\* The policies the registry can hand out.
RegistryPolicies ==
    { Base, Display, LocalUnix, LocalWindows, AmazonCloudDrive, B2, Box, Drive,
      Dropbox, GoogleCloudStorage, JottaCloud, Koofr, Mega, OneDrive,
      OpenDrive, Pcloud }

-----------------------------------------------------------------------------
(* The registry: ByName, Local, Names.                                     *)

n_base               == <<"b", "a", "s", "e">>
n_display            == <<"d", "i", "s", "p", "l", "a", "y">>
n_amazonclouddrive   == <<"a", "m", "a", "z", "o", "n", "c", "l", "o", "u", "d", "d", "r", "i", "v", "e">>
n_b2                 == <<"b", "2">>
n_box                == <<"b", "o", "x">>
n_drive              == <<"d", "r", "i", "v", "e">>
n_dropbox            == <<"d", "r", "o", "p", "b", "o", "x">>
n_googlecloudstorage == <<"g", "o", "o", "g", "l", "e", "c", "l", "o", "u", "d", "s", "t", "o", "r", "a", "g", "e">>
n_jottacloud         == <<"j", "o", "t", "t", "a", "c", "l", "o", "u", "d">>
n_koofr              == <<"k", "o", "o", "f", "r">>
n_local              == <<"l", "o", "c", "a", "l">>
n_local_windows      == <<"l", "o", "c", "a", "l", "-", "w", "i", "n", "d", "o", "w", "s">>
n_windows            == <<"w", "i", "n", "d", "o", "w", "s">>
n_local_unix         == <<"l", "o", "c", "a", "l", "-", "u", "n", "i", "x">>
n_unix               == <<"u", "n", "i", "x">>
n_mega               == <<"m", "e", "g", "a">>
n_onedrive           == <<"o", "n", "e", "d", "r", "i", "v", "e">>
n_opendrive          == <<"o", "p", "e", "n", "d", "r", "i", "v", "e">>
n_pcloud             == <<"p", "c", "l", "o", "u", "d">>

\* The nil encoder.Encoder, and the value of a result no call has set yet.
Nil   == { "nil" }
Unset == { "unset" }

UpperLetters ==
    <<"A", "B", "C", "D", "E", "F", "G", "H", "I", "J", "K", "L", "M",
      "N", "O", "P", "Q", "R", "S", "T", "U", "V", "W", "X", "Y", "Z">>

LowerLetters ==
    <<"a", "b", "c", "d", "e", "f", "g", "h", "i", "j", "k", "l", "m",
      "n", "o", "p", "q", "r", "s", "t", "u", "v", "w", "x", "y", "z">>

\* U+212A KELVIN SIGN, one rune: unicode.ToLower maps it to "k".
KelvinSign == "U+212A"

\* unicode.ToLower on one rune.
ToLowerRune(c) ==
    IF \E i \in 1..Len(UpperLetters) : UpperLetters[i] = c
    THEN LowerLetters[CHOOSE i \in 1..Len(UpperLetters) : UpperLetters[i] = c]
    ELSE IF c = KelvinSign THEN "k" ELSE c

\* strings.ToLower.
ToLower(s) == [i \in 1..Len(s) |-> ToLowerRune(s[i])]

\* Local with the platform test inverted.
LocalInverted(os) == IF os # "windows" THEN LocalWindows ELSE LocalUnix

\* Local returns the local encoding for the current platform.
Local(os) == IF os = "windows" THEN LocalWindows ELSE LocalUnix

\* The switch of ByName over the lowercased name.
ByNameSwitch(low, os) ==
    CASE low = n_base               -> Base
      [] low = n_display            -> Display
      [] low = n_amazonclouddrive   -> AmazonCloudDrive
      [] low = n_b2                 -> B2
      [] low = n_box                -> Box
      [] low = n_drive              -> Drive
      [] low = n_dropbox            -> Dropbox
      [] low = n_googlecloudstorage -> GoogleCloudStorage
      [] low = n_jottacloud         -> JottaCloud
      [] low = n_koofr              -> Koofr
      [] low = n_local              -> Local(os)
      [] low \in { n_local_windows, n_windows } -> LocalWindows
      [] low \in { n_local_unix, n_unix }       -> LocalUnix
      [] low = n_mega               -> Mega
      [] low = n_onedrive           -> OneDrive
      [] low = n_opendrive          -> OpenDrive
      [] low = n_pcloud             -> Pcloud
      [] OTHER                      -> Nil

\* ByName with the lowercasing forgotten: switch name { ... }.
ByNameCaseSensitive(n, os) == ByNameSwitch(n, os)

\* ByName with the commented-out cases "s3" and "ftp" returning Base.
ByNameUncommented(n, os) ==
    IF ToLower(n) \in { <<"s", "3">>, <<"f", "t", "p">> }
    THEN Base
    ELSE ByNameSwitch(ToLower(n), os)

\* ByName returns the encoder for a given backend name or nil.
ByName(n, os) == ByNameSwitch(ToLower(n), os)

\* Names with the entry "mega" forgotten.
NamesMissingMega ==
    << n_base, n_display, n_amazonclouddrive, n_b2, n_box, n_drive, n_dropbox,
       n_googlecloudstorage, n_jottacloud, n_koofr, n_local_unix,
       n_local_windows, n_local, n_onedrive, n_opendrive, n_pcloud >>

\* Names returns the list of known encodings as accepted by ByName.
Names ==
    << n_base, n_display, n_amazonclouddrive, n_b2, n_box, n_drive, n_dropbox,
       n_googlecloudstorage, n_jottacloud, n_koofr, n_local_unix,
       n_local_windows, n_local, n_mega, n_onedrive, n_opendrive, n_pcloud >>

\* The case labels of ByName's switch.
CaseLabels ==
    { n_base, n_display, n_amazonclouddrive, n_b2, n_box, n_drive, n_dropbox,
      n_googlecloudstorage, n_jottacloud, n_koofr, n_local, n_local_windows,
      n_windows, n_local_unix, n_unix, n_mega, n_onedrive, n_opendrive,
      n_pcloud }

\* The case labels Names() does not list.
Aliases == { n_windows, n_unix }

-----------------------------------------------------------------------------
(* The names handed to ByName: every case label, names the switch does not *)
(* know (the empty name, commented-out backends, prefixes and extensions   *)
(* of known names), each in several casings.                               *)

GOOSValues == { "windows", "linux", "darwin" }

UnknownNames ==
    { <<>>, <<"s", "3">>, <<"f", "t", "p">>, <<"b">>, <<"d", "r", "i", "v">>,
      <<"d", "r", "i", "v", "e", "s">>, <<"l", "o", "c", "a", "l", "-">>,
      <<"w", "i", "n">>, <<"b", "o", "x", " ">>, <<" ", "b", "2">> }

ToUpperRune(c) ==
    IF \E i \in 1..Len(LowerLetters) : LowerLetters[i] = c
    THEN UpperLetters[CHOOSE i \in 1..Len(LowerLetters) : LowerLetters[i] = c]
    ELSE c

Min(a, b) == IF a < b THEN a ELSE b

\* n with the letters at the positions of mask in upper case.
WithUpper(n, mask) ==
    [i \in 1..Len(n) |-> IF i \in mask THEN ToUpperRune(n[i]) ELSE n[i]]

Casings(n) ==
    { WithUpper(n, mask) :
        mask \in (SUBSET (1..Min(Len(n), MaxCase))) \cup { 1..Len(n) } }

RegistryInputs ==
    UNION { Casings(n) : n \in CaseLabels \cup UnknownNames }
      \cup { <<KelvinSign, "o", "o", "f", "r">> }

\* The other spellings of n: its lowercase form and its other casings.
AltsOf(n) == { ToLower(n) } \cup Casings(ToLower(n))

-----------------------------------------------------------------------------
(* The registry called by one caller.                                      *)

UnsetName == << "unset" >>

CodecIdle ==
    /\ policy = Unset /\ alphabet = {} /\ name = <<>> /\ encoded = <<>>
    /\ decoded = <<>> /\ other = <<>>

ConcIdle ==
    /\ heap = <<>>
    /\ cpc = <<>> /\ carg = <<>> /\ clow = <<>> /\ cres = <<>>
    /\ caddr = <<>> /\ ncalls = 0

InitRegistry ==
    /\ goos \in GOOSValues
    /\ arg \in RegistryInputs
    /\ ret = Unset
    /\ alt = UnsetName
    /\ retAlt = Unset
    /\ listed = <<>>
    /\ loc = Unset
    /\ CodecIdle
    /\ ConcIdle

CallByName ==
    /\ ret = Unset
    /\ ret' = ByName(arg, goos)
    /\ UNCHANGED <<goos, arg, alt, retAlt, listed, loc, codecVars, concVars>>

CallByNameAlt ==
    /\ retAlt = Unset
    /\ \E a \in AltsOf(arg) :
         /\ alt' = a
         /\ retAlt' = ByName(a, goos)
    /\ UNCHANGED <<goos, arg, ret, listed, loc, codecVars, concVars>>

\* listed is the history of the results of Names(), one per call.
CallNames ==
    /\ Len(listed) < MaxCalls
    /\ listed' = Append(listed, Names)
    /\ UNCHANGED <<goos, arg, ret, alt, retAlt, loc, codecVars, concVars>>

CallLocal ==
    /\ loc = Unset
    /\ loc' = Local(goos)
    /\ UNCHANGED <<goos, arg, ret, alt, retAlt, listed, codecVars, concVars>>

NextRegistry == CallByName \/ CallByNameAlt \/ CallNames \/ CallLocal

SpecRegistry == InitRegistry /\ [][NextRegistry]_vars

-----------------------------------------------------------------------------
(* The MultiEncoder a policy is: Encode and Decode over one name.          *)
(* encodings.go imports the encoder; its rules are taken from the design   *)
(* description (the flag table, the order of application) and the          *)
(* substitutes from the lists of replaced characters in encodings.go.      *)

\* The characters the rules are about, by codepoint.
Chr ==
    [ nul |-> 0, ht |-> 9, lf |-> 10, vt |-> 11, cr |-> 13, space |-> 32,
      quote |-> 34, hash |-> 35, percent |-> 37, asterisk |-> 42,
      period |-> 46, slash |-> 47, colon |-> 58, less |-> 60, greater |-> 62,
      question |-> 63, backslash |-> 92, a |-> 97, pipe |-> 124, tilde |-> 126,
      del |-> 127 ]

\* Adding FullOffset to a printable ASCII character gives its FULLWIDTH
\* variant ('<' -> U+FF1C); adding SymbolOffset to a control character or to
\* the space gives its SYMBOL FOR variant (space -> U+2420).
FullOffset == 65248
SymbolOffset == 9216

\* InvalidBase + b stands for the byte b outside any valid UTF-8 sequence.
InvalidBase == 1114112

IsInvalidByte(c) == c >= InvalidBase

\* The first character of the escape of an invalid byte.
EscapeMark == 8219

FullWidth(c) == c + FullOffset

SymbolFor(c) == IF c = Chr.del THEN SymbolOffset + 33 ELSE SymbolOffset + c

CrLfHtVt == { Chr.cr, Chr.lf, Chr.ht, Chr.vt }

\* The characters EncodeWin replaces.
WinChars ==
    { Chr.less, Chr.greater, Chr.colon, Chr.quote, Chr.pipe, Chr.question,
      Chr.asterisk }

\* The flags that replace a character wherever it stands.
ContentFlags ==
    { EncodeZero, EncodeSlash, EncodeWin, EncodeBackSlash, EncodeDel,
      EncodeCtl, EncodeHashPercent }

\* The flags that replace the first character of a segment.
LeftFlags ==
    { EncodeLeftSpace, EncodeLeftPeriod, EncodeLeftTilde, EncodeLeftCrLfHtVt }

\* The flags that replace the last character of a segment.
RightFlags == { EncodeRightSpace, EncodeRightPeriod, EncodeRightCrLfHtVt }

\* The characters a flag is triggered by (EncodeInvalidUtf8 is triggered by
\* invalid bytes, not by characters).
Triggers(f) ==
    CASE f = EncodeZero          -> { Chr.nul }
      [] f = EncodeSlash         -> { Chr.slash }
      [] f = EncodeWin           -> WinChars
      [] f = EncodeBackSlash     -> { Chr.backslash }
      [] f = EncodeHashPercent   -> { Chr.hash, Chr.percent }
      [] f = EncodeDel           -> { Chr.del }
      [] f = EncodeCtl           -> 1..31
      [] f = EncodeLeftSpace     -> { Chr.space }
      [] f = EncodeRightSpace    -> { Chr.space }
      [] f = EncodeLeftPeriod    -> { Chr.period }
      [] f = EncodeRightPeriod   -> { Chr.period }
      [] f = EncodeLeftTilde     -> { Chr.tilde }
      [] f = EncodeLeftCrLfHtVt  -> CrLfHtVt
      [] f = EncodeRightCrLfHtVt -> CrLfHtVt
      [] OTHER                   -> {}

\* The substitute of a trigger character: the SYMBOL FOR variant of a
\* control character and of the space, the FULLWIDTH variant of the rest.
Substitute(c) ==
    IF c <= Chr.space \/ c = Chr.del THEN SymbolFor(c) ELSE FullWidth(c)

\* The codepoints a flag substitutes with.
Targets(f) ==
    IF f = EncodeInvalidUtf8
    THEN { EscapeMark }
    ELSE { Substitute(c) : c \in Triggers(f) }

\* The characters the active flags among fs are triggered by.
ActiveTriggers(P, fs) == UNION { Triggers(f) : f \in P \cap fs }

\* One character under the active flags among fs.
Sub(P, fs, c) == IF c \in ActiveTriggers(P, fs) THEN Substitute(c) ELSE c

\* One character back: the trigger whose substitute it is, if any.
Unsub(P, fs, c) ==
    IF \E t \in ActiveTriggers(P, fs) : Substitute(t) = c
    THEN CHOOSE t \in ActiveTriggers(P, fs) : Substitute(t) = c
    ELSE c

\* The content-level rules: every character of the segment.
EncodeContent(P, s) == [i \in 1..Len(s) |-> Sub(P, ContentFlags, s[i])]

DecodeContent(P, s) == [i \in 1..Len(s) |-> Unsub(P, ContentFlags, s[i])]

\* The position-level rules: the first character of the segment only.
EncodeLeft(P, s) ==
    IF s = <<>> THEN s
    ELSE [i \in 1..Len(s) |-> IF i = 1 THEN Sub(P, LeftFlags, s[i]) ELSE s[i]]

DecodeLeft(P, s) ==
    IF s = <<>> THEN s
    ELSE [i \in 1..Len(s) |-> IF i = 1 THEN Unsub(P, LeftFlags, s[i]) ELSE s[i]]

\* The right rules with every interior and leading character replaced too.
EncodeRightEverywhere(P, s) == [i \in 1..Len(s) |-> Sub(P, RightFlags, s[i])]

\* The position-level rules: the last character of the segment only.
EncodeRight(P, s) ==
    IF s = <<>> THEN s
    ELSE [i \in 1..Len(s) |->
            IF i = Len(s) THEN Sub(P, RightFlags, s[i]) ELSE s[i]]

DecodeRight(P, s) ==
    IF s = <<>> THEN s
    ELSE [i \in 1..Len(s) |->
            IF i = Len(s) THEN Unsub(P, RightFlags, s[i]) ELSE s[i]]

\* The escape of one invalid byte: the mark, then the codepoint of the
\* byte's value.
EscapeOf(c) == << EscapeMark, c - InvalidBase >>

RECURSIVE EscapeInvalid(_)
\* Every invalid byte of s escaped, one by one.
EscapeInvalid(s) ==
    IF s = <<>> THEN <<>>
    ELSE (IF IsInvalidByte(Head(s)) THEN EscapeOf(Head(s)) ELSE << Head(s) >>)
           \o EscapeInvalid(Tail(s))

RECURSIVE UnescapeInvalid(_)
\* Every escape of s back to its byte, left to right.
UnescapeInvalid(s) ==
    IF s = <<>> THEN <<>>
    ELSE IF /\ Len(s) >= 2
            /\ s[1] = EscapeMark
            /\ s[2] \in 128..255
         THEN << InvalidBase + s[2] >> \o UnescapeInvalid(Tail(Tail(s)))
         ELSE << Head(s) >> \o UnescapeInvalid(Tail(s))

\* Encode: the content-level rules, then the position-level rules on the
\* content-encoded segment, then the escape of invalid bytes.
Encode(P, s) ==
    LET positioned == EncodeRight(P, EncodeLeft(P, EncodeContent(P, s)))
    IN  IF EncodeInvalidUtf8 \in P THEN EscapeInvalid(positioned)
        ELSE positioned

\* Decode: the inverse of every active flag, in the reverse order.
Decode(P, s) ==
    LET unescaped == IF EncodeInvalidUtf8 \in P THEN UnescapeInvalid(s) ELSE s
    IN  DecodeContent(P, DecodeLeft(P, DecodeRight(P, unescaped)))

-----------------------------------------------------------------------------
(* Encode and Decode called on one name under one policy.                  *)

\* The sequences over S of length at most n.
SeqsUpTo(S, n) == UNION { [1..k -> S] : k \in 0..n }

\* The characters of the names: plain characters, the triggers of every
\* flag, substitutes of triggers (U+2420, U+FF0F, U+FF0E, U+FF1A), invalid
\* bytes and the escape mark.
CodecAlphabets ==
    { { Chr.a, Chr.space, 9248 },
      { Chr.a, Chr.period, 65294 },
      { Chr.a, Chr.slash, 65295 },
      { Chr.a, Chr.colon, 65306 },
      { Chr.a, InvalidBase + 128, EscapeMark },
      { Chr.nul, Chr.del, Chr.ht },
      { Chr.colon, Chr.backslash, Chr.hash },
      { Chr.tilde, Chr.space, Chr.period },
      { Chr.slash, Chr.space, InvalidBase + 255 } }

\* The characters of the names handed to the Windows policy.
WindowsAlphabets ==
    { { Chr.less, Chr.greater, Chr.colon, Chr.quote },
      { Chr.backslash, Chr.pipe, Chr.question, Chr.asterisk },
      { Chr.a, Chr.space, Chr.period, Chr.pipe },
      { Chr.space, Chr.period, 9248, 65294 } }

\* The value of a name no call has set yet.
NoName == << -1 >>

RegistryIdle ==
    /\ arg = <<>> /\ ret = Unset /\ alt = UnsetName /\ retAlt = Unset
    /\ listed = <<>> /\ loc = Unset

InitCodecOver(policies, alphabets) ==
    /\ goos = "linux"
    /\ policy \in policies
    /\ alphabet \in alphabets
    /\ name \in SeqsUpTo(alphabet, MaxLen)
    /\ encoded = NoName
    /\ decoded = NoName
    /\ other = NoName
    /\ RegistryIdle
    /\ ConcIdle

InitCodec == InitCodecOver(RegistryPolicies, CodecAlphabets)

InitWindows == InitCodecOver({ LocalWindows }, WindowsAlphabets)

DoEncode ==
    /\ encoded = NoName
    /\ encoded' = Encode(policy, name)
    /\ UNCHANGED <<goos, policy, alphabet, name, decoded, other, regVars, concVars>>

DoDecode ==
    /\ encoded # NoName
    /\ decoded = NoName
    /\ decoded' = Decode(policy, encoded)
    /\ UNCHANGED <<goos, policy, alphabet, name, encoded, other, regVars, concVars>>

\* A second name is encoded under the same policy and gives the same
\* encoded name.
DoEncodeOther ==
    /\ decoded # NoName
    /\ other = NoName
    /\ \E t \in SeqsUpTo(alphabet, MaxLen) :
         /\ t # name
         /\ Encode(policy, t) = encoded
         /\ other' = t
    /\ UNCHANGED <<goos, policy, alphabet, name, encoded, decoded, regVars, concVars>>

NextCodec == DoEncode \/ DoDecode \/ DoEncodeOther

SpecCodec == InitCodec /\ [][NextCodec]_vars

NextWindows == DoEncode \/ DoDecode

SpecWindows == InitWindows /\ [][NextWindows]_vars

-----------------------------------------------------------------------------
(* The registry called by several callers at once. ByName works on its own *)
(* lowercased copy of the name; Names() builds a new slice on every call,  *)
(* which the caller owns and may write to.                                 *)

Callers == 1..NumCallers

CallerInputs == { <<"D", "R", "O", "P", "B", "O", "X">>, n_local, <<"s", "3">> }

\* Names() handing out one package-level slice instead of a new one.
NamesCallShared(h) ==
    [ heap |-> IF h = <<>> THEN << Names >> ELSE h, addr |-> 1 ]

\* The composite literal of Names(): a new slice, at a new address.
NamesCall(h) == [ heap |-> Append(h, Names), addr |-> Len(h) + 1 ]

InitConc ==
    /\ goos \in { "windows", "linux" }
    /\ heap = <<>>
    /\ cpc = [c \in Callers |-> "idle"]
    /\ carg = [c \in Callers |-> <<>>]
    /\ clow = [c \in Callers |-> <<>>]
    /\ cres = [c \in Callers |-> Unset]
    /\ caddr = [c \in Callers |-> 0]
    /\ ncalls = 0
    /\ RegistryIdle
    /\ CodecIdle

\* Caller c calls ByName(n).
BeginByName(c) ==
    /\ cpc[c] = "idle"
    /\ ncalls < MaxCalls
    /\ \E n \in CallerInputs : carg' = [carg EXCEPT ![c] = n]
    /\ cpc' = [cpc EXCEPT ![c] = "lower"]
    /\ ncalls' = ncalls + 1
    /\ UNCHANGED <<goos, heap, clow, cres, caddr, regVars, codecVars>>

\* strings.ToLower(name)
StepLower(c) ==
    /\ cpc[c] = "lower"
    /\ clow' = [clow EXCEPT ![c] = ToLower(carg[c])]
    /\ cpc' = [cpc EXCEPT ![c] = "switch"]
    /\ UNCHANGED <<goos, heap, carg, cres, caddr, ncalls, regVars, codecVars>>

\* The switch, and the return of ByName.
StepSwitch(c) ==
    /\ cpc[c] = "switch"
    /\ cres' = [cres EXCEPT ![c] = ByNameSwitch(clow[c], goos)]
    /\ cpc' = [cpc EXCEPT ![c] = "gotPolicy"]
    /\ UNCHANGED <<goos, heap, carg, clow, caddr, ncalls, regVars, codecVars>>

\* Caller c calls Names().
BeginNames(c) ==
    /\ cpc[c] = "idle"
    /\ ncalls < MaxCalls
    /\ heap' = NamesCall(heap).heap
    /\ caddr' = [caddr EXCEPT ![c] = NamesCall(heap).addr]
    /\ cpc' = [cpc EXCEPT ![c] = "gotNames"]
    /\ ncalls' = ncalls + 1
    /\ UNCHANGED <<goos, carg, clow, cres, regVars, codecVars>>

\* Caller c writes to the slice it was handed: names[0] = "local".
WriteSlice(c) ==
    /\ cpc[c] = "gotNames"
    /\ heap' = [heap EXCEPT ![caddr[c]][1] = n_local]
    /\ cpc' = [cpc EXCEPT ![c] = "idle"]
    /\ caddr' = [caddr EXCEPT ![c] = 0]
    /\ UNCHANGED <<goos, carg, clow, cres, ncalls, regVars, codecVars>>

\* Caller c is done with the result of its call.
Release(c) ==
    /\ cpc[c] \in { "gotPolicy", "gotNames" }
    /\ cpc' = [cpc EXCEPT ![c] = "idle"]
    /\ carg' = [carg EXCEPT ![c] = <<>>]
    /\ clow' = [clow EXCEPT ![c] = <<>>]
    /\ cres' = [cres EXCEPT ![c] = Unset]
    /\ caddr' = [caddr EXCEPT ![c] = 0]
    /\ UNCHANGED <<goos, heap, ncalls, regVars, codecVars>>

NextConc ==
    \E c \in Callers :
        \/ BeginByName(c)
        \/ StepLower(c)
        \/ StepSwitch(c)
        \/ BeginNames(c)
        \/ WriteSlice(c)
        \/ Release(c)

SpecConc == InitConc /\ [][NextConc]_vars

-----------------------------------------------------------------------------
(* Properties of the registry, checked under SpecRegistry.                 *)

InList(n, l) == \E i \in 1..Len(l) : l[i] = n

NoDuplicates(l) == \A i, j \in 1..Len(l) : l[i] = l[j] => i = j

\* C2: lookup is case-insensitive: ByName returns for a name what it returns
\* for the lowercase form of the name and for every other casing of it.
C2_CaseInsensitive ==
    (ret # Unset /\ retAlt # Unset) => ret = retAlt

\* ByName("DROPBOX") and ByName("dropbox") have both returned Dropbox.
C2_Witness ==
    /\ arg = <<"D", "R", "O", "P", "B", "O", "X">>
    /\ alt = n_dropbox
    /\ ret = Dropbox
    /\ retAlt = Dropbox

\* C3: for a name whose lowercase form is no case label of the switch,
\* ByName returns nil; the call always returns.
C3_UnknownIsNil ==
    (ret # Unset /\ ToLower(arg) \notin CaseLabels) => ret = Nil

\* ByName has returned nil for the commented-out backend "S3".
C3_Witness ==
    /\ arg = <<"S", "3">>
    /\ ret = Nil

\* C4: a lowercase name resolves under ByName if and only if
\* Names() lists it; the list has no duplicates and is the same on every call.
C4_ListedIffResolves ==
    (ret # Unset /\ listed # <<>> /\ arg = ToLower(arg)) =>
        /\ (ret # Nil) <=> InList(arg, listed[1])
        /\ NoDuplicates(listed[1])
        /\ \A i \in 1..Len(listed) : listed[i] = listed[1]

\* C4 as amended: a lowercase name resolves under ByName if and only if
\* Names() lists it or it is one of the aliases "windows" and "unix"; the
\* list has no duplicates and is the same on every call.
C4_ListedOrAlias ==
    (ret # Unset /\ listed # <<>> /\ arg = ToLower(arg)) =>
        /\ (ret # Nil) <=> (InList(arg, listed[1]) \/ arg \in Aliases)
        /\ NoDuplicates(listed[1])
        /\ \A i \in 1..Len(listed) : listed[i] = listed[1]

\* Names() has been called twice and ByName has resolved the listed name
\* "mega".
C4_Witness ==
    /\ Len(listed) = 2
    /\ arg = n_mega
    /\ ret = Mega

\* C5: Local() is LocalWindows on Windows and LocalUnix elsewhere, and
\* ByName("local") equals Local(), hence ByName("local-windows") or
\* ByName("local-unix"), and is never nil.
C5_DefaultLocal ==
    /\ loc # Unset =>
          /\ loc \in { LocalWindows, LocalUnix }
          /\ (loc = LocalWindows) <=> (goos = "windows")
    /\ (ret # Unset /\ arg = n_local) =>
          /\ loc # Unset => ret = loc
          /\ ret \in { ByName(n_local_windows, goos), ByName(n_local_unix, goos) }
          /\ ret # Nil

\* On Windows, Local() and ByName("local") have both returned LocalWindows.
C5_Witness ==
    /\ goos = "windows"
    /\ arg = n_local
    /\ loc = LocalWindows
    /\ ret = LocalWindows

-----------------------------------------------------------------------------
(* Properties of Encode and Decode, checked under SpecCodec (every policy  *)
(* of the registry) and SpecWindows (the Windows policy).                  *)

\* s contains no codepoint an active flag of P substitutes with.
Clean(P, s) ==
    \A i \in 1..Len(s) : s[i] \notin UNION { Targets(f) : f \in P }

\* s contains no trigger character, positional condition or invalid byte of
\* an active flag of P.
NoTrigger(P, s) ==
    /\ \A i \in 1..Len(s) : s[i] \notin ActiveTriggers(P, ContentFlags)
    /\ s # <<>> =>
         /\ s[1] \notin ActiveTriggers(P, LeftFlags)
         /\ s[Len(s)] \notin ActiveTriggers(P, RightFlags)
    /\ EncodeInvalidUtf8 \in P => \A i \in 1..Len(s) : ~IsInvalidByte(s[i])

\* The substitution targets of a flag never meet the triggers of another.
Disjoint(P) ==
    \A f, g \in P : f # g => Targets(f) \cap Triggers(g) = {}

RoundTripOfCleanNames ==
    (decoded # NoName /\ Clean(policy, name)) => decoded = name

InjectiveOnCleanNames ==
    /\ Disjoint(policy)
    /\ other # NoName => ~(Clean(policy, name) /\ Clean(policy, other))

\* C9: under the Windows policy Encode substitutes a trailing space
\* (U+2420) or period (U+FF0E), also when it is the only character, and
\* leaves every leading and interior space or period unchanged.
C9_BoundaryOnly ==
    (policy = LocalWindows /\ encoded # NoName) =>
        /\ Len(encoded) = Len(name)
        /\ \A i \in 1..Len(name) :
             /\ (i = Len(name) /\ name[i] = Chr.space) => encoded[i] = 9248
             /\ (i = Len(name) /\ name[i] = Chr.period) => encoded[i] = 65294
             /\ (i < Len(name) /\ name[i] \in { Chr.space, Chr.period })
                   => encoded[i] = name[i]

\* The Windows policy has encoded ". ." to ". " followed by U+FF0E.
C9_Witness ==
    /\ policy = LocalWindows
    /\ name = << Chr.period, Chr.space, Chr.period >>
    /\ encoded = << Chr.period, Chr.space, 65294 >>

\* C10: under the Windows policy Encode replaces each of < > : " \ | ? * at
\* any position by its fullwidth lookalike, and Decode maps the lookalike
\* back.
C10_WindowsList ==
    policy = LocalWindows =>
        \A i \in 1..Len(name) :
            name[i] \in { 60, 62, 58, 34, 92, 124, 63, 42 } =>
                /\ encoded # NoName =>
                     /\ Len(encoded) = Len(name)
                     /\ encoded[i] = name[i] + 65248
                /\ decoded # NoName =>
                     /\ Len(decoded) = Len(name)
                     /\ decoded[i] = name[i]

\* The Windows policy has encoded "\|?" to U+FF3C U+FF5C U+FF1F and decoded
\* it back.
C10_Witness ==
    /\ policy = LocalWindows
    /\ name = << Chr.backslash, Chr.pipe, Chr.question >>
    /\ encoded = << 65340, 65372, 65311 >>
    /\ decoded = name

-----------------------------------------------------------------------------
(* Property of concurrent callers, checked under SpecConc.                 *)

====
